---- MODULE Spec2Model ----
(***************************************************************************)
(* Model of unicycler/path_finding.py: the search for graph paths between  *)
(* two anchor segments (all_paths, progressive_path_find, advance_paths,   *)
(* cull_paths) and the ranking of the found paths (get_best_paths_for_seq).*)
(*                                                                         *)
(* A signed segment reference is a non-zero integer; a path is a sequence  *)
(* of references.  Lengths are in bases.                                   *)
(***************************************************************************)
EXTENDS Integers, Sequences, FiniteSets, TLC

VARIABLES
    graph,                    \* the assembly graph: links, segment lengths, repetition caps
    start, end,               \* the anchors
    target_length, min_length, max_length,
    sequence,                 \* TRUE iff a consensus sequence was supplied
    expected_scaled_score,
    pc,                       \* position of the running call
    raised,                   \* the exception in flight, "none" if there is none
    working_paths, final_paths, ap_result,             \* all_paths
    forward_working_paths, reverse_working_paths,      \* progressive_path_find
    ppf_final_paths, ppf_result,
    adv_paths, flip_new_final_paths, shortest_opposite_path,   \* advance_paths
    scored_paths, score_fraction_threshold, surviving_paths,   \* cull_paths
    paths, paths_and_scores, progressive_path_search, gb_result,  \* get_best_paths_for_seq
    rp_path, rp_reversed, rp_restored,   \* reverse_path: argument, result, result reversed again
    events                    \* history: the callees called and exceptions raised so far

graphVars == <<graph, start, end, target_length, sequence, expected_scaled_score>>
apVars    == <<working_paths, final_paths, ap_result>>
ppfVars   == <<forward_working_paths, reverse_working_paths, ppf_final_paths, ppf_result>>
advVars   == <<adv_paths, flip_new_final_paths, shortest_opposite_path>>
cullVars  == <<scored_paths, score_fraction_threshold, surviving_paths>>
gbVars    == <<paths, paths_and_scores, progressive_path_search, gb_result>>
rpVars    == <<rp_path, rp_reversed, rp_restored>>
vars == <<graphVars, min_length, max_length, pc, raised, apVars, ppfVars, advVars,
          cullVars, gbVars, rpVars, events>>

-----------------------------------------------------------------------------
(* Bounds of the model. *)

\* The largest repetition cap a segment gets.
MaxCap == 2
\* The largest number of links (each with its strand mirror) a graph of the
\* general family holds.
MaxLinks == 3
\* The number of halvings after which the score fraction threshold of cull_paths
\* is 1.0 (about 50 in double arithmetic; the comparisons are the same from the
\* first halving on, the scores being whole numbers up to 100).
MaxHalvings == 2
\* The largest number of references in a path handed to reverse_path on its own.
MaxPathLen == 3
\* The longest list of paths cull_paths is called with on its own.
MaxCullPaths == 3
\* The largest number of working paths a frontier holds at the top of a round
\* that progressive_path_find is taken up at.
MaxCarried == 2

(* The tunables of unicycler/settings.py, scaled to the model's graphs. *)
MIN_RELATIVE_PATH_LENGTH_TENTHS == 5
MAX_RELATIVE_PATH_LENGTH_TENTHS == 15
ALL_PATH_SEARCH_MAX_FINAL_PATHS == 2
ALL_PATH_SEARCH_MAX_WORKING_PATHS == 3
PROGRESSIVE_PATH_SEARCH_MAX_WORKING_PATHS == 2
\* PROGRESSIVE_PATH_SEARCH_SCORE_FRACTION is 0.99: a gap of 1 / 100 to 1.0
SCORE_FRACTION_GAP_INVERSE == 100

-----------------------------------------------------------------------------
(* The graph. *)

Segs == {1, 2, 3, 4}
SegLens == {50, 100}
Targets == {0, 100, 200}

Abs(x) == IF x < 0 THEN -x ELSE x

\* The links a graph is drawn from; a graph holding link <<a, b>> also holds
\* its strand mirror <<-b, -a>>.
CandidateLinks ==
    << <<1, 3>>, <<1, 4>>, <<3, 2>>, <<4, 2>>, <<3, 4>>, <<4, 3>>,
       <<3, 3>>, <<1, 2>>, <<3, 1>>, <<2, 3>>, <<3, -4>>,
       <<1, -2>>, <<-2, 3>> >>

NumCandidates == Len(CandidateLinks)

\* The links not touching the reverse strand of the end anchor.
BasicLinks ==
    {i \in 1..NumCandidates : CandidateLinks[i][1] # -2 /\ CandidateLinks[i][2] # -2}

LinkAt(i) ==
    IF i <= NumCandidates THEN CandidateLinks[i]
    ELSE <<-(CandidateLinks[i - NumCandidates][2]), -(CandidateLinks[i - NumCandidates][1])>>

LinkPresent(i) ==
    (IF i <= NumCandidates THEN i ELSE i - NumCandidates) \in graph.links

\* The references of the graph: each segment in either strand.
Refs == Segs \cup {-seg : seg \in Segs}

\* graph.forward_links[seg]: the ordered successors of seg.
forward_links(seg) ==
    LET all == [i \in 1..(2 * NumCandidates) |-> i]
        idx == SelectSeq(all, LAMBDA i : LinkPresent(i) /\ LinkAt(i)[1] = seg)
    IN  [j \in 1..Len(idx) |-> LinkAt(idx[j])[2]]

\* seg in graph.forward_links
in_forward_links(seg) == forward_links(seg) # <<>>

IsLink(a, b) == \E j \in 1..Len(forward_links(a)) : forward_links(a)[j] = b

\* graph.max_path_segment_count(seg, start_end_depth)
max_path_segment_count(seg) == graph.cap[Abs(seg)]

\* graph.get_path_length(path)
RECURSIVE get_path_length(_)
get_path_length(path) ==
    IF path = <<>> THEN 0
    ELSE graph.seglen[Abs(path[1])] + get_path_length(Tail(path))

\* path.count(seg)
count(path, seg) == Cardinality({i \in 1..Len(path) : path[i] = seg})

\* path[1:]
Rest(path) == IF path = <<>> THEN <<>> ELSE Tail(path)

\* path[:-1]
Front(path) == IF path = <<>> THEN <<>> ELSE SubSeq(path, 1, Len(path) - 1)

\* A faulty variant of reverse_path: the order is reversed but not the signs.
reverse_path_keeping_signs(path) == [i \in 1..Len(path) |-> path[Len(path) + 1 - i]]

\* [-x for x in path[::-1]]
reverse_path(path) == [i \in 1..Len(path) |-> -(path[Len(path) + 1 - i])]

\* int(round(n / d)) for n >= 0, d > 0: Python rounds halves to even.
Round(n, d) ==
    LET q == n \div d
        r == n % d
    IN  IF 2 * r < d THEN q
        ELSE IF 2 * r > d THEN q + 1
        ELSE IF q % 2 = 0 THEN q ELSE q + 1

\* functions f(s[1], ..., s[n]) concatenated
RECURSIVE FlatMap(_, _)
FlatMap(f(_), s) ==
    IF s = <<>> THEN <<>> ELSE f(s[1]) \o FlatMap(f, Tail(s))

Min(S) == CHOOSE x \in S : \A y \in S : x <= y

\* sorted(s, key=...), Before(x, y) saying that x's key is less than y's: the
\* sort is stable.
Sorted(s, Before(_, _)) ==
    LET rank(i) == Cardinality({j \in 1..Len(s) :
                       \/ Before(s[j], s[i])
                       \/ ~Before(s[i], s[j]) /\ j < i})
    IN  [k \in 1..Len(s) |-> s[CHOOSE i \in 1..Len(s) : rank(i) = k - 1]]

\* Larger graphs: two paths and a loop on segment 3; a cycle between segments
\* 3 and 4 with a way back to the start anchor; two paths, a direct link and a
\* way back to the start anchor; a path through the reverse strand of the end
\* anchor; two paths and a link from the one to the other; one path that
\* branches three ways after two segments.
ExtraLinkSets ==
    { {1, 2, 3, 4, 7}, {1, 4, 5, 6, 9}, {1, 2, 8, 9}, {3, 12, 13}, {1, 2, 3, 4, 5},
      {2, 3, 6, 7, 9} }

\* The graphs of the model: up to two links, or link 1 -> 3 and up to
\* MaxLinks - 1 more links, or one of the larger graphs; the anchors are 100
\* bases long; a segment is single-copy (cap 1) or a repeat (cap MaxCap).
LinkSets ==
    {x \in SUBSET BasicLinks :
        /\ Cardinality(x) <= MaxLinks
        /\ (1 \in x \/ Cardinality(x) <= 2)}
    \cup ExtraLinkSets

Graphs ==
    { [links |-> l, seglen |-> sl, cap |-> c] :
        l \in LinkSets,
        sl \in {f \in [Segs -> SegLens] : f[1] = 100 /\ f[2] = 100},
        c \in [Segs -> {1, MaxCap}] }

\* The graphs progressive_path_find is run on: segment 3 is 50 or 100 bases
\* long, the others 100.
ProgressiveGraphs == {g \in Graphs : g.seglen[4] = 100}

\* The graphs get_best_paths_for_seq is run on, every segment with the same
\* cap: no link, no link from the start anchor, a dead end, a direct link, one
\* path, one path and a direct link, two paths, two paths and a loop, a cycle
\* through the start anchor, a cycle, a change of strand.
RankerLinkSets ==
    { {}, {3}, {1}, {8}, {1, 3}, {1, 3, 8}, {1, 2, 3, 4}, {1, 2, 3, 4, 7},
      {1, 3, 8, 9}, {1, 3, 5, 6}, {1, 5, 6, 9}, {1, 2, 5, 11} }

RankerGraphs ==
    { [links |-> l, seglen |-> sl, cap |-> c] :
        l \in RankerLinkSets,
        sl \in {f \in [Segs -> SegLens] : f[1] = 100 /\ f[2] = 100},
        c \in {f \in [Segs -> {1, MaxCap}] : \A s \in Segs : f[s] = f[1]} }

-----------------------------------------------------------------------------
(* all_paths *)

\* Faulty variants of the extension step: extending from the first segment of
\* the path; extending whatever the length; extending only below max_length;
\* keeping a path that is not extended.
ExtendFromFirst(working_path) ==
    LET first_seg == working_path[1]
        allowed(next_seg) ==
            count(working_path, next_seg) + count(working_path, -next_seg)
                < max_path_segment_count(next_seg)
        nexts == SelectSeq(forward_links(first_seg), allowed)
    IN  IF get_path_length(working_path) <= max_length /\ in_forward_links(first_seg)
        THEN [j \in 1..Len(nexts) |-> Append(working_path, nexts[j])]
        ELSE <<>>

ExtendAnyLength(working_path) ==
    LET last_seg == working_path[Len(working_path)]
        allowed(next_seg) ==
            count(working_path, next_seg) + count(working_path, -next_seg)
                < max_path_segment_count(next_seg)
        nexts == SelectSeq(forward_links(last_seg), allowed)
    IN  [j \in 1..Len(nexts) |-> Append(working_path, nexts[j])]

ExtendBelowMaxLength(working_path) ==
    LET last_seg == working_path[Len(working_path)]
        allowed(next_seg) ==
            count(working_path, next_seg) + count(working_path, -next_seg)
                < max_path_segment_count(next_seg)
        nexts == SelectSeq(forward_links(last_seg), allowed)
    IN  IF get_path_length(working_path) < max_length /\ in_forward_links(last_seg)
        THEN [j \in 1..Len(nexts) |-> Append(working_path, nexts[j])]
        ELSE <<>>

ExtendOrKeep(working_path) ==
    LET last_seg == working_path[Len(working_path)]
        allowed(next_seg) ==
            count(working_path, next_seg) + count(working_path, -next_seg)
                < max_path_segment_count(next_seg)
        nexts == SelectSeq(forward_links(last_seg), allowed)
    IN  IF get_path_length(working_path) <= max_length /\ in_forward_links(last_seg)
        THEN [j \in 1..Len(nexts) |-> Append(working_path, nexts[j])]
        ELSE <<working_path>>

\* The paths one working path is extended to.
ExtendWorkingPath(working_path) ==
    LET last_seg == working_path[Len(working_path)]
        allowed(next_seg) ==
            count(working_path, next_seg) + count(working_path, -next_seg)
                < max_path_segment_count(next_seg)
        nexts == SelectSeq(forward_links(last_seg), allowed)
    IN  IF get_path_length(working_path) <= max_length /\ in_forward_links(last_seg)
        THEN [j \in 1..Len(nexts) |-> Append(working_path, nexts[j])]
        ELSE <<>>

\* The for loop of one round over working_paths[i..]: the final paths, the new
\* working paths, and whether TooManyPaths was raised inside the loop.
RECURSIVE AllPathsFor(_, _, _, _)
AllPathsFor(wps, i, fin, new) ==
    IF i > Len(wps) THEN [final |-> fin, new |-> new, raise |-> FALSE]
    ELSE
        LET working_path == wps[i]
            last_seg == working_path[Len(working_path)]
            potential_result == Front(working_path)
        IN  IF last_seg = end
            THEN IF get_path_length(potential_result) >= min_length
                 THEN IF Len(fin) + 1 > ALL_PATH_SEARCH_MAX_FINAL_PATHS
                      THEN [final |-> Append(fin, potential_result), new |-> new,
                            raise |-> TRUE]
                      ELSE AllPathsFor(wps, i + 1, Append(fin, potential_result), new)
                 ELSE AllPathsFor(wps, i + 1, fin, new)
            ELSE AllPathsFor(wps, i + 1, fin, new \o ExtendWorkingPath(working_path))

\* A faulty variant of the entry of all_paths: no early return, so that looking
\* up the successors of a start anchor without any raises KeyError.
AllPathsEnterNoEarlyReturn ==
    /\ pc = "ap_call"
    /\ events' = events \cup {"all_paths"}
    /\ IF ~in_forward_links(start)
       THEN /\ raised' = "KeyError"
            /\ pc' = "error"
            /\ UNCHANGED <<working_paths, final_paths>>
       ELSE /\ working_paths' = [j \in 1..Len(forward_links(start)) |->
                                    <<forward_links(start)[j]>>]
            /\ final_paths' = <<>>
            /\ pc' = "ap_loop"
            /\ UNCHANGED raised
    /\ UNCHANGED <<graphVars, rpVars, min_length, max_length, ap_result, ppfVars, advVars,
                   cullVars, gbVars>>

AllPathsEnter ==
    /\ pc = "ap_call"
    /\ events' = events \cup {"all_paths"}
    /\ IF ~in_forward_links(start)
       THEN /\ ap_result' = <<>>
            /\ pc' = "ap_return"
            /\ UNCHANGED <<working_paths, final_paths>>
       ELSE /\ working_paths' = [j \in 1..Len(forward_links(start)) |->
                                    <<forward_links(start)[j]>>]
            /\ final_paths' = <<>>
            /\ pc' = "ap_loop"
            /\ UNCHANGED ap_result
    /\ UNCHANGED <<graphVars, rpVars, min_length, max_length, raised, ppfVars, advVars,
                   cullVars, gbVars>>

\* A faulty variant of one round of all_paths: the size of the working set is
\* not tested.
AllPathsRoundNoWorkingCeiling ==
    /\ pc = "ap_loop"
    /\ working_paths # <<>>
    /\ LET r == AllPathsFor(working_paths, 1, final_paths, <<>>)
       IN  /\ final_paths' = r.final
           /\ IF r.raise
              THEN /\ raised' = "TooManyPaths"
                   /\ events' = events \cup {"TooManyPaths"}
                   /\ pc' = "ap_raise"
                   /\ UNCHANGED working_paths
              ELSE /\ working_paths' = r.new
                   /\ UNCHANGED <<raised, pc, events>>
    /\ UNCHANGED <<graphVars, rpVars, min_length, max_length, ap_result, ppfVars, advVars,
                   cullVars, gbVars>>

AllPathsRound ==
    /\ pc = "ap_loop"
    /\ working_paths # <<>>
    /\ LET r == AllPathsFor(working_paths, 1, final_paths, <<>>)
       IN  /\ final_paths' = r.final
           /\ IF r.raise \/ Len(working_paths) > ALL_PATH_SEARCH_MAX_WORKING_PATHS
              THEN /\ raised' = "TooManyPaths"
                   /\ events' = events \cup {"TooManyPaths"}
                   /\ pc' = "ap_raise"
                   /\ UNCHANGED working_paths
              ELSE /\ working_paths' = r.new
                   /\ UNCHANGED <<raised, pc, events>>
    /\ UNCHANGED <<graphVars, rpVars, min_length, max_length, ap_result, ppfVars, advVars,
                   cullVars, gbVars>>

AllPathsReturn ==
    /\ pc = "ap_loop"
    /\ working_paths = <<>>
    /\ ap_result' = final_paths
    /\ pc' = "ap_return"
    /\ UNCHANGED <<graphVars, rpVars, min_length, max_length, raised, working_paths, final_paths,
                   ppfVars, advVars, cullVars, gbVars, events>>

-----------------------------------------------------------------------------
(* progressive_path_find and advance_paths *)

\* The alignment oracle's outcome for one sequence: NoResult or a scaled
\* score.
NoResult == -1
ScaledScores == {80, 99, 100}

\* min(graph.get_path_length(x[1:]) for x in path_list)
ShortestWithoutFirst(path_list) ==
    Min({get_path_length(Rest(path_list[i])) : i \in 1..Len(path_list)})

\* build_path_dictionary(path_list)[key]; reversing an empty path and taking
\* its first element raises IndexError.
HasEmptyPath(path_list) == \E i \in 1..Len(path_list) : path_list[i] = <<>>

build_path_dictionary(path_list, key) ==
    LET r_paths == [i \in 1..Len(path_list) |-> reverse_path(path_list[i])]
    IN  SelectSeq(r_paths, LAMBDA r_path : r_path[1] = key)

\* The frontier of the opposite direction, from which the dictionary was built.
OppositePaths ==
    IF flip_new_final_paths THEN forward_working_paths ELSE reverse_working_paths

\* max_length of advance_paths
AdvanceMaxLength == max_length - shortest_opposite_path

\* The next segments a working path of advance_paths may be extended by.
AdvanceNexts(path) ==
    LET allowed(next_seg) ==
            count(path, next_seg) + count(path, -next_seg)
                < max_path_segment_count(next_seg)
    IN  SelectSeq(forward_links(path[Len(path)]), allowed)

\* The completed paths one extension of path by next_seg adds to final_paths.
JoinedPaths(path, next_seg) ==
    LET final_parts == build_path_dictionary(OppositePaths, next_seg)
    IN  { IF flip_new_final_paths
          THEN reverse_path(path \o final_parts[k])
          ELSE path \o final_parts[k] : k \in 1..Len(final_parts) }

\* What one working path contributes to new_working_paths.
AdvancePath(shortest_path_len, path) ==
    IF get_path_length(path) > shortest_path_len THEN <<path>>
    ELSE LET keep(next_seg) ==
                 get_path_length(Rest(path) \o <<next_seg>>) <= AdvanceMaxLength
             nexts == SelectSeq(AdvanceNexts(path), keep)
         IN  [j \in 1..Len(nexts) |-> Append(path, nexts[j])]

\* What one working path adds to final_paths.
AdvanceFinals(shortest_path_len, path) ==
    IF get_path_length(path) > shortest_path_len THEN {}
    ELSE UNION { JoinedPaths(path, AdvanceNexts(path)[j]) :
                    j \in 1..Len(AdvanceNexts(path)) }

ProgressiveEnter ==
    /\ pc = "ppf_call"
    /\ events' = events \cup {"progressive_path_find"}
    /\ ppf_final_paths' = {}
    /\ forward_working_paths' = << <<start>> >>
    /\ reverse_working_paths' = << <<-end>> >>
    /\ pc' = "ppf_forward"
    /\ UNCHANGED <<graphVars, rpVars, min_length, max_length, raised, apVars, ppf_result,
                   advVars, cullVars, gbVars>>

\* Lines 162-167 and 171-177: the call of advance_paths for one direction.
CallAdvance(own, opposite, flip) ==
    /\ IF HasEmptyPath(opposite)
       THEN /\ raised' = "IndexError"
            /\ pc' = "error"
            /\ UNCHANGED advVars
       ELSE /\ shortest_opposite_path' = ShortestWithoutFirst(opposite)
            /\ adv_paths' = own
            /\ flip_new_final_paths' = flip
            /\ pc' = "adv_loop"
            /\ UNCHANGED raised
    /\ UNCHANGED <<graphVars, rpVars, min_length, max_length, apVars, ppfVars, cullVars,
                   gbVars, events>>

ProgressiveForward ==
    /\ pc = "ppf_forward"
    /\ CallAdvance(forward_working_paths, reverse_working_paths, FALSE)

ProgressiveReverse ==
    /\ pc = "ppf_reverse"
    /\ CallAdvance(reverse_working_paths, forward_working_paths, TRUE)

\* One iteration of the while loop of advance_paths.
AdvanceIterate ==
    /\ pc = "adv_loop"
    /\ 0 < Len(adv_paths)
    /\ Len(adv_paths) <= PROGRESSIVE_PATH_SEARCH_MAX_WORKING_PATHS
    /\ IF HasEmptyPath(adv_paths)
       THEN /\ raised' = "IndexError"
            /\ pc' = "error"
            /\ UNCHANGED <<adv_paths, ppf_final_paths>>
       ELSE LET shortest_path_len ==
                    Min({get_path_length(adv_paths[i]) : i \in 1..Len(adv_paths)})
                one(path) == AdvancePath(shortest_path_len, path)
            IN  /\ adv_paths' = FlatMap(one, adv_paths)
                /\ ppf_final_paths' = ppf_final_paths \cup
                      UNION { AdvanceFinals(shortest_path_len, adv_paths[i]) :
                                 i \in 1..Len(adv_paths) }
                /\ UNCHANGED <<raised, pc>>
    /\ UNCHANGED <<graphVars, rpVars, min_length, max_length, apVars, forward_working_paths,
                   reverse_working_paths, ppf_result, flip_new_final_paths,
                   shortest_opposite_path, cullVars, gbVars, events>>

\* The while loop of advance_paths is left: to cull_paths when there are too
\* many working paths, otherwise to the return.
AdvanceLeaveLoop ==
    /\ pc = "adv_loop"
    /\ ~(0 < Len(adv_paths)
         /\ Len(adv_paths) <= PROGRESSIVE_PATH_SEARCH_MAX_WORKING_PATHS)
    /\ pc' = IF Len(adv_paths) > PROGRESSIVE_PATH_SEARCH_MAX_WORKING_PATHS
             THEN "cull_call" ELSE "adv_return"
    /\ UNCHANGED <<graphVars, rpVars, min_length, max_length, raised, apVars, ppfVars, advVars,
                   cullVars, gbVars, events>>

\* advance_paths returns to the round loop of progressive_path_find.
AdvanceReturn ==
    /\ pc = "adv_return"
    /\ IF flip_new_final_paths
       THEN /\ reverse_working_paths' = adv_paths
            /\ UNCHANGED forward_working_paths
       ELSE /\ forward_working_paths' = adv_paths
            /\ UNCHANGED reverse_working_paths
    /\ pc' = IF adv_paths = <<>> THEN "ppf_finish"
             ELSE IF flip_new_final_paths THEN "ppf_forward" ELSE "ppf_reverse"
    /\ UNCHANGED <<graphVars, rpVars, min_length, max_length, raised, apVars, ppf_final_paths,
                   ppf_result, advVars, cullVars, gbVars, events>>

\* Lines 182-183: strip the first and last element, keep the lengths in the
\* window.  The list is in the iteration order of the set final_paths, which the
\* model leaves open: ppf_result is the list as a bag, path |-> number of
\* occurrences.
Strip(x) == Front(Rest(x))

InWindow(x) == min_length <= get_path_length(x) /\ get_path_length(x) <= max_length

ProgressiveFinish ==
    /\ pc = "ppf_finish"
    /\ LET kept == {x \in ppf_final_paths : InWindow(Strip(x))}
       IN  ppf_result' = [p \in {Strip(x) : x \in kept} |->
                             Cardinality({x \in kept : Strip(x) = p})]
    /\ pc' = "ppf_return"
    /\ UNCHANGED <<graphVars, rpVars, min_length, max_length, raised, apVars,
                   forward_working_paths, reverse_working_paths, ppf_final_paths,
                   advVars, cullVars, gbVars, events>>

-----------------------------------------------------------------------------
(* cull_paths *)

\* common_start before its first segment is removed (lines 542-552).
RECURSIVE CommonStart(_, _)
CommonStart(path_list, i) ==
    IF /\ \A k \in 1..Len(path_list) : i <= Len(path_list[k])
       /\ \A k \in 1..Len(path_list) : path_list[k][i] = path_list[1][i]
    THEN <<path_list[1][i]>> \o CommonStart(path_list, i + 1)
    ELSE <<>>

\* common_path_seq is not empty: the common start, without its first segment,
\* is more than 100 bases long.
HasCommonPathSeq(path_list) == get_path_length(Rest(CommonStart(path_list, 1))) > 100

\* sorted(scored_paths, key=lambda x: x[1], reverse=True)
SortByScore(sp) == Sorted(sp, LAMBDA x, y : x[2] > y[2])

\* score >= best_score * score_fraction_threshold, the threshold being
\* 1 - (1 / 100) / 2^halvings, and 1.0 from MaxHalvings halvings on.
Survives(score, best_score, halvings) ==
    IF halvings >= MaxHalvings THEN score >= best_score
    ELSE score * SCORE_FRACTION_GAP_INVERSE * (2 ^ halvings)
            >= best_score * (SCORE_FRACTION_GAP_INVERSE * (2 ^ halvings) - 1)

CullScoreReturnsPaths ==
    /\ pc = "cull_call"
    /\ \E common_ok \in BOOLEAN :
       \E result \in [1..Len(adv_paths) -> ScaledScores \cup {NoResult}] :
          LET scored == SelectSeq([i \in 1..Len(adv_paths) |->
                                      <<Rest(adv_paths[i]), result[i]>>],
                                  LAMBDA x : x[2] # NoResult)
              sorted == SortByScore(scored)
          IN  IF HasCommonPathSeq(adv_paths) /\ ~common_ok
              THEN /\ raised' = "IndexError"
                   /\ pc' = "error"
                   /\ events' = events \cup {"cull_paths", "oracle"}
                   /\ UNCHANGED <<adv_paths, cullVars>>
              ELSE /\ common_ok
                   /\ UNCHANGED raised
                   /\ IF sorted = <<>> \/
                         10 * sorted[1][2] < 9 * expected_scaled_score
                      THEN /\ adv_paths' = adv_paths
                           /\ pc' = "adv_return"
                           /\ events' = events \cup
                                 {"cull_paths", "oracle", "cull_paths gave up"}
                           /\ UNCHANGED cullVars
                      ELSE /\ events' = events \cup {"cull_paths", "oracle"}
                           /\ scored_paths' = sorted
                           /\ score_fraction_threshold' = 0
                           /\ surviving_paths' = <<>>
                           /\ pc' = "cull_filter"
                           /\ UNCHANGED adv_paths
    /\ UNCHANGED <<graphVars, rpVars, min_length, max_length, apVars, ppfVars,
                   flip_new_final_paths, shortest_opposite_path, gbVars>>

\* Lines 537-588: the alignments and the two give-up tests.
CullScore ==
    /\ pc = "cull_call"
    /\ \E common_ok \in BOOLEAN :
       \E result \in [1..Len(adv_paths) -> ScaledScores \cup {NoResult}] :
          LET scored == SelectSeq([i \in 1..Len(adv_paths) |->
                                      <<Rest(adv_paths[i]), result[i]>>],
                                  LAMBDA x : x[2] # NoResult)
              sorted == SortByScore(scored)
          IN  IF HasCommonPathSeq(adv_paths) /\ ~common_ok
              THEN /\ raised' = "IndexError"
                   /\ pc' = "error"
                   /\ events' = events \cup {"cull_paths", "oracle"}
                   /\ UNCHANGED <<adv_paths, cullVars>>
              ELSE /\ common_ok
                   /\ UNCHANGED raised
                   /\ IF sorted = <<>> \/
                         10 * sorted[1][2] < 9 * expected_scaled_score
                      THEN /\ adv_paths' = <<>>
                           /\ pc' = "adv_return"
                           /\ events' = events \cup
                                 {"cull_paths", "oracle", "cull_paths gave up"}
                           /\ UNCHANGED cullVars
                      ELSE /\ events' = events \cup {"cull_paths", "oracle"}
                           /\ scored_paths' = sorted
                           /\ score_fraction_threshold' = 0
                           /\ surviving_paths' = <<>>
                           /\ pc' = "cull_filter"
                           /\ UNCHANGED adv_paths
    /\ UNCHANGED <<graphVars, rpVars, min_length, max_length, apVars, ppfVars,
                   flip_new_final_paths, shortest_opposite_path, gbVars>>

\* Lines 591-595: the survivors under the current threshold.
CullFilter ==
    /\ pc = "cull_filter"
    /\ surviving_paths' =
          SelectSeq(scored_paths,
                    LAMBDA x : Survives(x[2], scored_paths[1][2], score_fraction_threshold))
    /\ pc' = "cull_test"
    /\ UNCHANGED <<graphVars, rpVars, min_length, max_length, raised, apVars, ppfVars, advVars,
                   scored_paths, score_fraction_threshold, gbVars, events>>

\* A faulty variant of the end of cull_paths: the survivors are returned as
\* they are, also when all the paths survived.
CullTestNoHalving ==
    /\ pc = "cull_test"
    /\ IF Len(surviving_paths) > PROGRESSIVE_PATH_SEARCH_MAX_WORKING_PATHS \div 2
       THEN /\ score_fraction_threshold' =
                  IF score_fraction_threshold >= MaxHalvings THEN MaxHalvings
                  ELSE score_fraction_threshold + 1
            /\ pc' = "cull_filter"
            /\ UNCHANGED <<adv_paths, surviving_paths, scored_paths>>
       ELSE LET survivors == [i \in 1..Len(surviving_paths) |-> surviving_paths[i][1]]
            IN  /\ adv_paths' = survivors
                /\ pc' = "adv_return"
                /\ scored_paths' = <<>>
                /\ surviving_paths' = <<>>
                /\ score_fraction_threshold' = 0
    /\ UNCHANGED <<graphVars, rpVars, min_length, max_length, raised, apVars, ppfVars,
                   flip_new_final_paths, shortest_opposite_path, gbVars, events>>

\* Lines 596-609: tighten the threshold and go round again, or return the survivors.
CullTest ==
    /\ pc = "cull_test"
    /\ IF Len(surviving_paths) > PROGRESSIVE_PATH_SEARCH_MAX_WORKING_PATHS \div 2
       THEN /\ score_fraction_threshold' =
                  IF score_fraction_threshold >= MaxHalvings THEN MaxHalvings
                  ELSE score_fraction_threshold + 1
            /\ pc' = "cull_filter"
            /\ UNCHANGED <<adv_paths, surviving_paths, scored_paths>>
       ELSE LET survivors == [i \in 1..Len(surviving_paths) |-> surviving_paths[i][1]]
            IN  /\ adv_paths' =
                      IF Len(survivors) = Len(adv_paths)
                      THEN SubSeq(survivors, 1, Len(survivors) \div 2)
                      ELSE survivors
                /\ pc' = "adv_return"
                /\ scored_paths' = <<>>
                /\ surviving_paths' = <<>>
                /\ score_fraction_threshold' = 0
    /\ UNCHANGED <<graphVars, rpVars, min_length, max_length, raised, apVars, ppfVars,
                   flip_new_final_paths, shortest_opposite_path, gbVars, events>>

-----------------------------------------------------------------------------
(* get_best_paths_for_seq *)

\* The results of fully_global_alignment: <<raw score, scaled score>>.  In a
\* scored path the raw score is kept as a fraction <<numerator, denominator>>.
AlignmentResults == {<<20, 80>>, <<20, 99>>, <<10, 100>>}

RawLess(a, b) == a[1] * b[2] < b[1] * a[2]

\* get_num_agreement(num_1, num_2) * 100.0, for numbers that are not negative
get_num_agreement_100(num_1, num_2) ==
    IF num_1 = 0 /\ num_2 = 0 THEN <<100, 1>>
    ELSE IF num_1 <= num_2 THEN <<100 * num_1, num_2>> ELSE <<100 * num_2, num_1>>

LengthDiscrepancy(path) == Abs(get_path_length(path) - target_length)

\* Lines 26-36: the length window, and the call of all_paths.
GetBestEnter ==
    /\ pc = "gb_call"
    /\ min_length' = Round(target_length * MIN_RELATIVE_PATH_LENGTH_TENTHS, 10)
    /\ max_length' = Round(target_length * MAX_RELATIVE_PATH_LENGTH_TENTHS, 10)
    /\ pc' = "ap_call"
    /\ UNCHANGED <<graphVars, rpVars, raised, apVars, ppfVars, advVars, cullVars, gbVars, events>>

\* sorted(paths, key=lambda x: abs(target_length - graph.get_path_length(x)))
SortByDiscrepancy(path_list) ==
    Sorted(path_list, LAMBDA x, y : LengthDiscrepancy(x) < LengthDiscrepancy(y))

\* Lines 36-37 and 47: all_paths returned.
GetBestExhaustive ==
    /\ pc = "ap_return"
    /\ progressive_path_search' = FALSE
    /\ paths' = SortByDiscrepancy(ap_result)
    /\ paths_and_scores' = <<>>
    /\ pc' = "gb_score"
    /\ UNCHANGED <<graphVars, rpVars, min_length, max_length, raised, apVars, ppfVars, advVars,
                   cullVars, gb_result, events>>

\* A faulty variant of the fall back: the flag is not set.
GetBestFallBackFlagFalse ==
    /\ pc = "ap_raise"
    /\ raised = "TooManyPaths"
    /\ raised' = "none"
    /\ progressive_path_search' = FALSE
    /\ pc' = "ppf_call"
    /\ UNCHANGED <<graphVars, rpVars, min_length, max_length, apVars, ppfVars, advVars, cullVars,
                   paths, paths_and_scores, gb_result, events>>

\* Lines 41-44: all_paths raised TooManyPaths.
GetBestFallBack ==
    /\ pc = "ap_raise"
    /\ raised = "TooManyPaths"
    /\ raised' = "none"
    /\ progressive_path_search' = TRUE
    /\ pc' = "ppf_call"
    /\ UNCHANGED <<graphVars, rpVars, min_length, max_length, apVars, ppfVars, advVars, cullVars,
                   paths, paths_and_scores, gb_result, events>>

\* The lists a bag may be: every order of its elements.
ListsOf(bag) ==
    LET n == IF DOMAIN bag = {} THEN 0
             ELSE LET total[S \in SUBSET DOMAIN bag] ==
                          IF S = {} THEN 0
                          ELSE LET x == CHOOSE x \in S : TRUE
                               IN  bag[x] + total[S \ {x}]
                  IN  total[DOMAIN bag]
    IN  { f \in [1..n -> DOMAIN bag] :
            \A p \in DOMAIN bag : Cardinality({i \in 1..n : f[i] = p}) = bag[p] }

\* Lines 43-44 and 47: progressive_path_find returned.
GetBestProgressive ==
    /\ pc = "ppf_return"
    /\ \E path_list \in ListsOf(ppf_result) : paths' = SortByDiscrepancy(path_list)
    /\ paths_and_scores' = <<>>
    /\ pc' = "gb_score"
    /\ UNCHANGED <<graphVars, rpVars, min_length, max_length, raised, apVars, ppfVars, advVars,
                   cullVars, progressive_path_search, gb_result, events>>

\* A faulty variant of the scoring loop: an alignment without result is not
\* skipped, and reading its fields raises.
GetBestScoreNoSkip ==
    /\ pc = "gb_score"
    /\ paths # <<>>
    /\ LET path == Head(paths)
           path_len == get_path_length(path)
           length_discrepancy == Abs(path_len - target_length)
       IN  IF sequence
           THEN /\ events' = events \cup {"oracle"}
                /\ \/ /\ raised' = "AttributeError"     \* no alignment result
                      /\ pc' = "error"
                      /\ UNCHANGED paths_and_scores
                   \/ /\ \E alignment_result \in AlignmentResults :
                            LET raw_score == <<alignment_result[1], 1>>
                                scaled_score == alignment_result[2]
                            IN  paths_and_scores' =
                                   Append(paths_and_scores,
                                          <<path, raw_score, length_discrepancy,
                                            scaled_score>>)
                      /\ UNCHANGED <<pc, raised>>
           ELSE /\ paths_and_scores' =
                      Append(paths_and_scores,
                             <<path, get_num_agreement_100(path_len, target_length),
                               length_discrepancy, 100>>)
                /\ UNCHANGED <<events, pc, raised>>
    /\ paths' = Tail(paths)
    /\ UNCHANGED <<graphVars, rpVars, min_length, max_length, apVars, ppfVars,
                   advVars, cullVars, progressive_path_search, gb_result>>

\* A faulty variant of the scoring loop: without a consensus sequence the
\* scaled score is the length agreement in percent, not 100.
GetBestScoreScaledByLength ==
    /\ pc = "gb_score"
    /\ paths # <<>>
    /\ LET path == Head(paths)
           path_len == get_path_length(path)
           length_discrepancy == Abs(path_len - target_length)
           agreement == get_num_agreement_100(path_len, target_length)
       IN  IF sequence
           THEN /\ events' = events \cup {"oracle"}
                /\ \/ UNCHANGED paths_and_scores      \* no alignment result
                   \/ \E alignment_result \in AlignmentResults :
                         LET raw_score == <<alignment_result[1], 1>>
                             scaled_score == alignment_result[2]
                         IN  paths_and_scores' =
                                Append(paths_and_scores,
                                       <<path, raw_score, length_discrepancy,
                                         scaled_score>>)
           ELSE /\ paths_and_scores' =
                      Append(paths_and_scores,
                             <<path, agreement, length_discrepancy,
                               agreement[1] \div agreement[2]>>)
                /\ UNCHANGED events
    /\ paths' = Tail(paths)
    /\ UNCHANGED <<graphVars, rpVars, min_length, max_length, pc, raised, apVars, ppfVars,
                   advVars, cullVars, progressive_path_search, gb_result>>

\* Lines 51-73: one iteration of the scoring loop; paths holds the paths not yet
\* scored.
GetBestScore ==
    /\ pc = "gb_score"
    /\ paths # <<>>
    /\ LET path == Head(paths)
           path_len == get_path_length(path)
           length_discrepancy == Abs(path_len - target_length)
       IN  IF sequence
           THEN /\ events' = events \cup {"oracle"}
                /\ \/ UNCHANGED paths_and_scores      \* no alignment result
                   \/ \E alignment_result \in AlignmentResults :
                         LET raw_score == <<alignment_result[1], 1>>
                             scaled_score == alignment_result[2]
                         IN  paths_and_scores' =
                                Append(paths_and_scores,
                                       <<path, raw_score, length_discrepancy,
                                         scaled_score>>)
           ELSE /\ paths_and_scores' =
                      Append(paths_and_scores,
                             <<path, get_num_agreement_100(path_len, target_length),
                               length_discrepancy, 100>>)
                /\ UNCHANGED events
    /\ paths' = Tail(paths)
    /\ UNCHANGED <<graphVars, rpVars, min_length, max_length, pc, raised, apVars, ppfVars,
                   advVars, cullVars, progressive_path_search, gb_result>>

\* A faulty variant of the sort key: the length discrepancy before the raw score.
KeyLessDiscrepancyFirst(x, y) ==
    \/ x[3] < y[3]
    \/ /\ x[3] = y[3]
       /\ \/ RawLess(y[2], x[2])
          \/ ~RawLess(x[2], y[2]) /\ ~RawLess(y[2], x[2]) /\ x[4] > y[4]

\* sorted(paths_and_scores, key=lambda x: (-x[1], x[2], -x[3]))
KeyLess(x, y) ==
    \/ RawLess(y[2], x[2])
    \/ /\ ~RawLess(x[2], y[2]) /\ ~RawLess(y[2], x[2])
       /\ \/ x[3] < y[3]
          \/ x[3] = y[3] /\ x[4] > y[4]

\* A faulty variant of the filter: the threshold is 95% of the full scaled
\* score instead of 95% of the first candidate's.
KeepGoodOfFullScore(sorted) ==
    IF sorted = <<>> THEN <<>>
    ELSE SelectSeq(sorted, LAMBDA x : 100 * x[4] >= 95 * 100)

\* Lines 79-82: the scored paths not much worse than the first one.
KeepGood(sorted) ==
    IF sorted = <<>> THEN <<>>
    ELSE SelectSeq(sorted, LAMBDA x : 100 * x[4] >= 95 * sorted[1][4])

\* Lines 76-84: rank, filter and return.
GetBestReturn ==
    /\ pc = "gb_score"
    /\ paths = <<>>
    /\ gb_result' = KeepGood(Sorted(paths_and_scores, KeyLess))
    /\ pc' = "gb_return"
    /\ UNCHANGED <<graphVars, rpVars, min_length, max_length, raised, apVars, ppfVars, advVars,
                   cullVars, paths, paths_and_scores, progressive_path_search, events>>

-----------------------------------------------------------------------------
(* reverse_path, called on a path and again on its result *)

\* The paths of up to MaxPathLen references.
BoundedPaths == UNION { [1..n -> Refs] : n \in 0..MaxPathLen }

ReversePath ==
    /\ pc = "rp_call"
    /\ rp_reversed' = reverse_path(rp_path)
    /\ pc' = "rp_again"
    /\ UNCHANGED <<graphVars, rp_path, rp_restored, min_length, max_length, raised, apVars,
                   ppfVars, advVars, cullVars, gbVars, events>>

ReversePathAgain ==
    /\ pc = "rp_again"
    /\ rp_restored' = reverse_path(rp_reversed)
    /\ pc' = "rp_return"
    /\ UNCHANGED <<graphVars, rp_path, rp_reversed, min_length, max_length, raised, apVars,
                   ppfVars, advVars, cullVars, gbVars, events>>

-----------------------------------------------------------------------------
(* Specifications. *)

Idle ==
    /\ rp_path = <<>> /\ rp_reversed = <<>> /\ rp_restored = <<>>
    /\ raised = "none"
    /\ working_paths = <<>> /\ final_paths = <<>> /\ ap_result = <<>>
    /\ forward_working_paths = <<>> /\ reverse_working_paths = <<>>
    /\ ppf_final_paths = {} /\ ppf_result = <<>>
    /\ adv_paths = <<>> /\ flip_new_final_paths = FALSE /\ shortest_opposite_path = 0
    /\ scored_paths = <<>> /\ score_fraction_threshold = 0 /\ surviving_paths = <<>>
    /\ paths = <<>> /\ paths_and_scores = <<>> /\ progressive_path_search = FALSE
    /\ gb_result = <<>>
    /\ events = {}

Inputs ==
    /\ graph \in Graphs \cup RankerGraphs
    /\ start = 1
    /\ end = 2
    /\ target_length \in Targets
    /\ sequence \in BOOLEAN
    /\ expected_scaled_score = 100

\* all_paths called with the window get_best_paths_for_seq derives from the target.
InitAP ==
    /\ Inputs
    /\ sequence = TRUE
    /\ min_length = Round(target_length * MIN_RELATIVE_PATH_LENGTH_TENTHS, 10)
    /\ max_length = Round(target_length * MAX_RELATIVE_PATH_LENGTH_TENTHS, 10)
    /\ pc = "ap_call"
    /\ Idle

NextAP == AllPathsEnter \/ AllPathsRound \/ AllPathsReturn

SpecAP == InitAP /\ [][NextAP]_vars

\* all_paths called with the widest window, in which a cycle can be gone round
\* most often; the loop runs on: no call stops half way.
InitAPWide == InitAP /\ target_length = 200

FairSpecAP == InitAPWide /\ [][NextAP]_vars /\ WF_vars(NextAP)

\* progressive_path_find called as get_best_paths_for_seq calls it.
InitPPF ==
    /\ Inputs
    /\ graph \in ProgressiveGraphs
    /\ target_length = 200
    /\ sequence = TRUE
    /\ min_length = Round(target_length * MIN_RELATIVE_PATH_LENGTH_TENTHS, 10)
    /\ max_length = Round(target_length * MAX_RELATIVE_PATH_LENGTH_TENTHS, 10)
    /\ pc = "ppf_call"
    /\ Idle

NextPPF ==
    \/ ProgressiveEnter \/ ProgressiveForward \/ ProgressiveReverse
    \/ AdvanceIterate \/ AdvanceLeaveLoop \/ AdvanceReturn
    \/ CullScore \/ CullFilter \/ CullTest
    \/ ProgressiveFinish

SpecPPF == InitPPF /\ [][NextPPF]_vars

\* The loops run on: no call stops half way.
FairSpecPPF == SpecPPF /\ WF_vars(NextPPF)

\* Either search, called on its own.
InitSearch == InitAP \/ InitPPF

NextSearch == NextAP \/ NextPPF

SpecSearch == InitSearch /\ [][NextSearch]_vars

\* get_best_paths_for_seq, the entry point.
Init ==
    /\ Inputs
    /\ graph \in RankerGraphs
    /\ min_length = 0
    /\ max_length = 0
    /\ pc = "gb_call"
    /\ Idle

Next ==
    \/ GetBestEnter \/ GetBestExhaustive \/ GetBestFallBack \/ GetBestProgressive
    \/ GetBestScore \/ GetBestReturn
    \/ AllPathsEnter \/ AllPathsRound \/ AllPathsReturn
    \/ ProgressiveEnter \/ ProgressiveForward \/ ProgressiveReverse
    \/ AdvanceIterate \/ AdvanceLeaveLoop \/ AdvanceReturn
    \/ CullScore \/ CullFilter \/ CullTest
    \/ ProgressiveFinish

Spec == Init /\ [][Next]_vars

\* reverse_path called on every path of up to MaxPathLen references.
InitReverse ==
    /\ graph \in {g \in RankerGraphs : g.links = {}}
    /\ start = 1 /\ end = 2 /\ target_length = 0 /\ sequence = FALSE
    /\ expected_scaled_score = 100
    /\ min_length = 0 /\ max_length = 0
    /\ rp_path \in BoundedPaths /\ rp_reversed = <<>> /\ rp_restored = <<>>
    /\ raised = "none"
    /\ working_paths = <<>> /\ final_paths = <<>> /\ ap_result = <<>>
    /\ forward_working_paths = <<>> /\ reverse_working_paths = <<>>
    /\ ppf_final_paths = {} /\ ppf_result = <<>>
    /\ adv_paths = <<>> /\ flip_new_final_paths = FALSE /\ shortest_opposite_path = 0
    /\ scored_paths = <<>> /\ score_fraction_threshold = 0 /\ surviving_paths = <<>>
    /\ paths = <<>> /\ paths_and_scores = <<>> /\ progressive_path_search = FALSE
    /\ gb_result = <<>>
    /\ events = {}
    /\ pc = "rp_call"

NextReverse == ReversePath \/ ReversePathAgain

SpecReverse == InitReverse /\ [][NextReverse]_vars

-----------------------------------------------------------------------------
(* cull_paths called on its own *)

\* Working paths of a forward frontier, each with the sentinel in front.
CullPathSet ==
    { <<1>>, <<1, 3>>, <<1, 2>>, <<1, 3, 4, 2>>, <<1, 3, 4, 3>> }

CullInputs == UNION { [1..n -> CullPathSet] : n \in 1..MaxCullPaths }

InitCull ==
    /\ graph \in {g \in RankerGraphs : g.links = {} /\ g.cap[1] = 1 /\ g.seglen[4] = 100}
    /\ start = 1 /\ end = 2 /\ target_length = 200 /\ sequence = TRUE
    /\ expected_scaled_score = 100
    /\ min_length = 0 /\ max_length = 0
    /\ rp_path = <<>> /\ rp_reversed = <<>> /\ rp_restored = <<>>
    /\ raised = "none"
    /\ working_paths = <<>> /\ final_paths = <<>> /\ ap_result = <<>>
    /\ forward_working_paths = <<>> /\ reverse_working_paths = <<>>
    /\ ppf_final_paths = {} /\ ppf_result = <<>>
    /\ adv_paths \in CullInputs
    /\ flip_new_final_paths = FALSE /\ shortest_opposite_path = 0
    /\ scored_paths = <<>> /\ score_fraction_threshold = 0 /\ surviving_paths = <<>>
    /\ paths = <<>> /\ paths_and_scores = <<>> /\ progressive_path_search = FALSE
    /\ gb_result = <<>>
    /\ events = {}
    /\ pc = "cull_call"

NextCull == CullScore \/ CullFilter \/ CullTest

SpecCull == InitCull /\ [][NextCull]_vars

-----------------------------------------------------------------------------
(* Properties of the searches. *)

\* start, path, end is a contiguous walk of the graph.
ContiguousWalk(path) ==
    LET walk == <<start>> \o path \o <<end>>
    IN  \A i \in 1..(Len(walk) - 1) : IsLink(walk[i], walk[i + 1])

\* The paths all_paths returned, and those progressive_path_find returned.
ExhaustivePaths == {ap_result[i] : i \in 1..Len(ap_result)}
ProgressivePaths == DOMAIN ppf_result

\* Segment seg, in either strand, occurs in path no more often than its cap.
WithinCap(path, seg) == count(path, seg) + count(path, -seg) <= max_path_segment_count(seg)

\* C1: every path progressive_path_find returns is, between the anchors, a
\* contiguous walk of the (strand-symmetric) graph, also after cull_paths ran.
C1_ProgressiveWalk ==
    pc = "ppf_return" => \A path \in ProgressivePaths : ContiguousWalk(path)

\* C2: every path all_paths returns is, between the anchors, a contiguous walk
\* of the graph.
C2_ExhaustiveWalk ==
    pc = "ap_return" => \A path \in ExhaustivePaths : ContiguousWalk(path)

C2_Witness ==
    /\ pc = "ap_return"
    /\ \E path \in ExhaustivePaths : Len(path) >= 3

\* The returned paths of all_paths, and of progressive_path_find, hold neither
\* anchor.
ExhaustiveNoAnchor ==
    pc = "ap_return" =>
       \A path \in ExhaustivePaths : count(path, start) = 0 /\ count(path, end) = 0
ProgressiveNoAnchor ==
    pc = "ppf_return" =>
       \A path \in ProgressivePaths : count(path, start) = 0 /\ count(path, end) = 0

\* C3: no returned path of either search holds the start or the end anchor,
\* also on graphs with a cycle back to the start anchor or onward from the end
\* anchor.
C3_NoAnchorInPath == ExhaustiveNoAnchor /\ ProgressiveNoAnchor

\* The returned paths of all_paths, and of progressive_path_find, keep every
\* segment within its repetition cap.
ExhaustiveWithinCaps ==
    pc = "ap_return" =>
       \A path \in ExhaustivePaths : \A seg \in Segs : WithinCap(path, seg)
ProgressiveWithinCaps ==
    pc = "ppf_return" =>
       \A path \in ProgressivePaths : \A seg \in Segs : WithinCap(path, seg)

\* C4: in every returned path of either search every segment, counted in both
\* strands, occurs at most as often as its repetition cap, also in a
\* progressive path joined from a forward and a reverse part.
C4_WithinCaps == ExhaustiveWithinCaps /\ ProgressiveWithinCaps

\* C5: every returned path of either search has a length in
\* [min_length, max_length].
C5_LengthInWindow ==
    /\ pc = "ap_return" => \A path \in ExhaustivePaths : InWindow(path)
    /\ pc = "ppf_return" => \A path \in ProgressivePaths : InWindow(path)

\* all_paths returned a path that a link and the repetition caps allow to
\* extend by a segment that takes it beyond max_length.
C5_Witness ==
    /\ pc = "ap_return"
    /\ \E path \in ExhaustivePaths :
          /\ path # <<>>
          /\ \E j \in 1..Len(forward_links(path[Len(path)])) :
                LET next_seg == forward_links(path[Len(path)])[j]
                IN  /\ next_seg # end
                    /\ count(path, next_seg) + count(path, -next_seg)
                          < max_path_segment_count(next_seg)
                    /\ get_path_length(Append(path, next_seg)) > max_length

\* The walks of the graph from the given ones on, every segment within its
\* cap and the length no more than max_length.
RECURSIVE GrowWalks(_, _)
GrowWalks(frontier, found) ==
    IF frontier = {} THEN found
    ELSE LET grown == UNION { {Append(walk, ref) : ref \in Refs} : walk \in frontier }
             fits(walk) ==
                 /\ IsLink(walk[Len(walk) - 1], walk[Len(walk)])
                 /\ WithinCap(walk, walk[Len(walk)])
                 /\ get_path_length(walk) <= max_length
         IN  GrowWalks({walk \in grown : fits(walk)} \ found, found \cup frontier)

\* The walks from a successor of start to a predecessor of end with a length
\* in [min_length, max_length] and every segment within its cap.
WalksInWindow ==
    LET firsts == {<<ref>> : ref \in {r \in Refs : IsLink(start, r)}}
        walks == GrowWalks({walk \in firsts : get_path_length(walk) <= max_length}, {})
    IN  {walk \in walks :
            /\ IsLink(walk[Len(walk)], end)
            /\ get_path_length(walk) >= min_length}

\* The walk does not pass through the end anchor, and the end anchor can still
\* be appended to it within the end anchor's cap.
ShortOfEnd(walk) ==
    /\ count(walk, end) = 0
    /\ count(walk, -end) < max_path_segment_count(end)

\* C6 as stated: when all_paths returns, its result holds every walk from a
\* successor of start to a predecessor of end with a length in the window and
\* every segment within its cap.
C6_EveryWalkReturned ==
    pc = "ap_return" => WalksInWindow \subseteq ExhaustivePaths

\* C6, amended: when all_paths returns, its result holds every such walk that
\* does not pass through the end anchor and uses the end anchor's reverse
\* strand less often than the end anchor's cap.
C6_EveryWalkShortOfEndReturned ==
    pc = "ap_return" =>
       \A walk \in WalksInWindow : ShortOfEnd(walk) => walk \in ExhaustivePaths

\* all_paths returned two walks, one of them with a repeated segment.
C6_Witness ==
    /\ pc = "ap_return"
    /\ \E w1, w2 \in WalksInWindow :
          /\ w1 # w2 /\ ShortOfEnd(w1) /\ ShortOfEnd(w2)
          /\ \E seg \in Segs : count(w1, seg) >= 2

\* C7: all_paths terminates: it returns a list or raises TooManyPaths.
C7_AllPathsTerminates == <>(pc \in {"ap_return", "ap_raise"})

\* all_paths returned from a graph with a cycle it went round.
C7_Witness ==
    /\ pc = "ap_return"
    /\ \E path \in ExhaustivePaths : \E seg \in Segs :
          count(path, seg) + count(path, -seg) >= 2

\* C8: progressive_path_find terminates (an exception ends it as well), also
\* when cull_paths is invoked repeatedly.
C8_ProgressiveTerminates == <>(pc \in {"ppf_return", "error"})

-----------------------------------------------------------------------------
(* Properties of get_best_paths_for_seq. *)

\* C9: all_paths is attempted first; progressive_path_find is called if and
\* only if all_paths raised TooManyPaths, and the returned flag is True exactly
\* then.
C9_FallBackIffTooManyPaths ==
    /\ events # {} => "all_paths" \in events
    /\ "progressive_path_find" \in events => "TooManyPaths" \in events
    /\ pc = "gb_return" =>
          /\ "TooManyPaths" \in events => "progressive_path_find" \in events
          /\ progressive_path_search <=> "TooManyPaths" \in events

\* get_best_paths_for_seq returned paths found by the progressive search.
C9_Witness ==
    /\ pc = "gb_return"
    /\ progressive_path_search
    /\ gb_result # <<>>

\* C10: when the start anchor has no successor, all_paths returns the empty
\* list without raising, and get_best_paths_for_seq returns no candidate and
\* the flag False, without calling progressive_path_find or the oracle.
C10_NoSuccessorOfStart ==
    ~in_forward_links(start) =>
       /\ raised = "none" /\ pc \notin {"ap_raise", "error"}
       /\ "progressive_path_find" \notin events /\ "oracle" \notin events
       /\ pc \in {"ap_return", "gb_score", "gb_return"} => ap_result = <<>>
       /\ pc = "gb_return" => gb_result = <<>> /\ ~progressive_path_search

\* get_best_paths_for_seq returned for a read sequence on a graph with links
\* but none from the start anchor.
C10_Witness ==
    /\ pc = "gb_return"
    /\ sequence
    /\ graph.links # {}
    /\ ~in_forward_links(start)

-----------------------------------------------------------------------------
(* Properties of the ranking. *)

\* C11: in the returned list a candidate with a strictly higher raw score
\* stands before one with a lower raw score, whatever their scaled scores and
\* length discrepancies; among equal raw scores the smaller length discrepancy
\* comes first.
C11_RankedByRawScore ==
    pc = "gb_return" =>
       \A i, j \in 1..Len(gb_result) :
          i < j =>
             /\ ~RawLess(gb_result[i][2], gb_result[j][2])
             /\ ~RawLess(gb_result[j][2], gb_result[i][2]) =>
                   gb_result[i][3] <= gb_result[j][3]

\* Two candidates were returned, the first with the higher raw score although
\* its scaled score is lower and its length discrepancy larger.
C11_Witness ==
    /\ pc = "gb_return"
    /\ \E i, j \in 1..Len(gb_result) :
          /\ i < j
          /\ RawLess(gb_result[j][2], gb_result[i][2])
          /\ gb_result[i][4] < gb_result[j][4]
          /\ gb_result[i][3] > gb_result[j][3]

\* The scored candidates whose scaled score is at least 95% of the highest
\* scaled score among all scored candidates.
WithinBestScaled ==
    LET scored == {paths_and_scores[i] : i \in 1..Len(paths_and_scores)}
    IN  {x \in scored : \A y \in scored : 100 * x[4] >= 95 * y[4]}

\* C12: the returned candidates are exactly the scored candidates whose scaled
\* score is at least 95% of the highest scaled score among all scored
\* candidates, also when the candidate with the highest raw score is not the
\* one with the highest scaled score.
C12_KeepsWithinBestScaled ==
    pc = "gb_return" =>
       {gb_result[i] : i \in 1..Len(gb_result)} = WithinBestScaled

\* C13: with a consensus sequence, a candidate for which the oracle returns no
\* result is left out and the scoring goes on with the next candidate without
\* raising; when no candidate at all was scored the function returns the empty
\* list with the flag of the search that ran.
C13_NoResultSkipsCandidate ==
    /\ [][(pc = "gb_score" /\ paths # <<>>) =>
             /\ pc' = "gb_score"
             /\ raised' = "none"
             /\ paths' = Tail(paths)
             /\ \/ paths_and_scores' = paths_and_scores
                \/ /\ Len(paths_and_scores') = Len(paths_and_scores) + 1
                   /\ SubSeq(paths_and_scores', 1, Len(paths_and_scores)) = paths_and_scores
                   /\ paths_and_scores'[Len(paths_and_scores')][1] = Head(paths)]_vars
    /\ [](pc = "gb_return" =>
             /\ \A i \in 1..Len(gb_result) :
                   \E k \in 1..Len(paths_and_scores) : gb_result[i] = paths_and_scores[k]
             /\ paths_and_scores = <<>> =>
                   /\ gb_result = <<>>
                   /\ progressive_path_search <=> "TooManyPaths" \in events)

\* get_best_paths_for_seq returned the one candidate that was scored, after
\* the oracle had returned no result for the candidate before it.
C13_Witness ==
    /\ pc = "gb_return"
    /\ sequence
    /\ ~progressive_path_search
    /\ Len(ap_result) = 2
    /\ Len(paths_and_scores) = 1
    /\ paths_and_scores[1][1] # SortByDiscrepancy(ap_result)[1]
    /\ Len(gb_result) = 1

\* C14: without a consensus sequence and with all_paths returning, the oracle
\* is never called, every path all_paths found is returned with scaled score
\* 100, and the retention filter removes none.
C14_LengthOnlyScoring ==
    (pc = "gb_return" /\ ~sequence /\ ~progressive_path_search) =>
       /\ "oracle" \notin events
       /\ Len(gb_result) = Len(ap_result)
       /\ \A i \in 1..Len(ap_result) :
             \E k \in 1..Len(gb_result) : gb_result[k][1] = ap_result[i]
       /\ \A k \in 1..Len(gb_result) : gb_result[k][4] = 100

\* get_best_paths_for_seq returned, without a consensus sequence, two paths
\* whose lengths agree differently with the target.
C14_Witness ==
    /\ pc = "gb_return"
    /\ ~sequence
    /\ ~progressive_path_search
    /\ Len(gb_result) >= 2
    /\ RawLess(gb_result[2][2], gb_result[1][2])

-----------------------------------------------------------------------------
(* Properties of the progressive search. *)

\* C15: the list progressive_path_find returns holds no path twice: two
\* completed raw paths never give the same path once the first and the last
\* element are stripped, also when one was recorded before and one after a cull.
C15_NoPathTwice ==
    pc = "ppf_return" => \A path \in ProgressivePaths : ppf_result[path] = 1

-----------------------------------------------------------------------------
(* Properties of reverse_path. *)

\* C16: reversing a path twice gives the path back, and the reversed path has
\* the length of the path and holds at each place the negated reference of the
\* mirrored place.
C16_ReverseTwice ==
    /\ pc \in {"rp_again", "rp_return"} =>
          /\ Len(rp_reversed) = Len(rp_path)
          /\ \A i \in 1..Len(rp_path) : rp_reversed[i] = -(rp_path[Len(rp_path) + 1 - i])
    /\ pc = "rp_return" => rp_restored = rp_path

\* A path of MaxPathLen references, its ends different, was reversed twice.
C16_Witness ==
    /\ pc = "rp_return"
    /\ Len(rp_path) = MaxPathLen
    /\ rp_path[1] # rp_path[Len(rp_path)]
    /\ rp_path[1] # -(rp_path[Len(rp_path)])

-----------------------------------------------------------------------------
(* Properties of the frontiers and of cull_paths. *)

\* C17: whenever advance_paths is about to be called, every forward working
\* path begins with the start anchor and every reverse working path with the
\* negated end anchor: extension and cull_paths keep the sentinel.
C17_SentinelKept ==
    pc \in {"ppf_forward", "ppf_reverse"} =>
       /\ \A i \in 1..Len(forward_working_paths) :
             /\ forward_working_paths[i] # <<>>
             /\ forward_working_paths[i][1] = start
       /\ \A i \in 1..Len(reverse_working_paths) :
             /\ reverse_working_paths[i] # <<>>
             /\ reverse_working_paths[i][1] = -end

\* C18: cull_paths always terminates: its threshold loop (CullFilter, CullTest)
\* is always left again, whatever scores the paths get, also when more than
\* PROGRESSIVE_PATH_SEARCH_MAX_WORKING_PATHS // 2 paths share the best score.
C18_CullTerminates == []<>(pc \notin {"cull_filter", "cull_test"})

\* C19: in cull_paths an alignment without result never raises: neither for
\* one of the paths nor for the common start of the paths.
C19_CullNeverRaises ==
    [][pc = "cull_call" => (pc' # "error" /\ raised' = "none")]_vars

\* C20: once cull_paths has given up (no path scored, or the best scaled score
\* below 0.9 times the expected one) the frontier returned is empty, no
\* frontier is advanced again, nothing is raised, no completed path is added,
\* and what is returned are the recorded paths within the length window.
C20_GiveUpEndsSearch ==
    /\ []("cull_paths gave up" \in events =>
             /\ raised = "none"
             /\ pc \in {"adv_return", "ppf_finish", "ppf_return"}
             /\ pc = "adv_return" => adv_paths = <<>>
             /\ pc = "ppf_finish" =>
                   forward_working_paths = <<>> \/ reverse_working_paths = <<>>
             /\ pc = "ppf_return" =>
                   DOMAIN ppf_result =
                     {Strip(x) : x \in {y \in ppf_final_paths : InWindow(Strip(y))}})
    /\ [][ "cull_paths gave up" \in events' =>
             ppf_final_paths' = ppf_final_paths ]_vars

\* The search has returned a path after cull_paths gave up.
C20_Witness ==
    /\ pc = "ppf_return"
    /\ "cull_paths gave up" \in events
    /\ ppf_result # << >>
    /\ \E x \in ppf_final_paths : ~InWindow(Strip(x))

-----------------------------------------------------------------------------
(* Properties of the ceilings of all_paths *)

\* C21: all_paths returns at most ALL_PATH_SEARCH_MAX_FINAL_PATHS paths and
\* only if no ceiling was exceeded; a round whose working set holds more than
\* ALL_PATH_SEARCH_MAX_WORKING_PATHS paths, or in which the number of final
\* paths exceeds its ceiling, ends in TooManyPaths and nothing is returned.
C21_CeilingsRaise ==
    /\ [](pc = "ap_return" =>
             /\ Len(ap_result) <= ALL_PATH_SEARCH_MAX_FINAL_PATHS
             /\ raised = "none"
             /\ "TooManyPaths" \notin events)
    /\ [][ (/\ pc = "ap_loop"
            /\ \/ Len(working_paths) > ALL_PATH_SEARCH_MAX_WORKING_PATHS
               \/ Len(final_paths') > ALL_PATH_SEARCH_MAX_FINAL_PATHS)
           => /\ pc' = "ap_raise"
              /\ raised' = "TooManyPaths"
              /\ "TooManyPaths" \in events'
              /\ ap_result' = ap_result ]_vars

\* TooManyPaths was raised for the working set alone: the final paths are
\* within their ceiling.
C21_Witness ==
    /\ pc = "ap_raise"
    /\ Len(working_paths) > ALL_PATH_SEARCH_MAX_WORKING_PATHS
    /\ Len(final_paths) <= ALL_PATH_SEARCH_MAX_FINAL_PATHS
    /\ final_paths # <<>>

-----------------------------------------------------------------------------
(* Properties of the size of the culled frontier *)

\* C22: cull_paths returns strictly fewer paths than it was given, and at
\* most PROGRESSIVE_PATH_SEARCH_MAX_WORKING_PATHS when it was given more than
\* that; until it returns the list it was given is untouched.
C22_CullShrinks ==
    [][ (pc = "cull_call" \/ pc = "cull_filter" \/ pc = "cull_test") =>
          (/\ pc' = "adv_return" =>
                /\ Len(adv_paths') < Len(adv_paths)
                /\ Len(adv_paths) > PROGRESSIVE_PATH_SEARCH_MAX_WORKING_PATHS =>
                      Len(adv_paths') <= PROGRESSIVE_PATH_SEARCH_MAX_WORKING_PATHS
           /\ pc' # "adv_return" => adv_paths' = adv_paths) ]_vars

\* cull_paths has returned nothing of a frontier all of whose paths survived
\* the threshold, without having given up: the survivors were cut to half.
C22_Witness ==
    /\ pc = "adv_return"
    /\ "cull_paths" \in events
    /\ "cull_paths gave up" \notin events
    /\ adv_paths = <<>>

-----------------------------------------------------------------------------
(* Properties of the meeting of the two frontiers *)

\* The forward and the reverse frontier during one iteration of advance_paths.
ForwardFrontier == IF flip_new_final_paths THEN forward_working_paths ELSE adv_paths

ReverseFrontier == IF flip_new_final_paths THEN adv_paths ELSE reverse_working_paths

\* The forward working path followed by the reverse working path reversed in
\* order and sign.
Meeting(forward_path, reverse_path_) == forward_path \o reverse_path(reverse_path_)

\* C23: a raw completed path added by an iteration of advance_paths is a
\* forward working path followed by a reversed reverse working path, whichever
\* frontier is being advanced; it begins with the start anchor, ends with the
\* end anchor, and holds each sentinel once.
C23_MeetingPath ==
    [][ (pc = "adv_loop" /\ pc' = "adv_loop") =>
          \A x \in ppf_final_paths' \ ppf_final_paths :
             /\ \E i \in 1..Len(ForwardFrontier) : \E j \in 1..Len(ReverseFrontier) :
                   x = Meeting(ForwardFrontier[i], ReverseFrontier[j])
             /\ x[1] = start
             /\ x[Len(x)] = end
             /\ count(x, start) = 1
             /\ count(x, end) = 1 ]_vars

-----------------------------------------------------------------------------
(* progressive_path_find taken up at the top of a round *)

\* The graphs of the rounds: two ways from the start to segment 4, a loop
\* 3 -> 4 -> 3 and the way out 4 -> 2; segments 3 and 4 may be repeats.
RoundGraphs ==
    { [links |-> {1, 2, 4, 5, 6}, seglen |-> sl, cap |-> c] :
        sl \in {f \in [Segs -> SegLens] : f[1] = 100 /\ f[2] = 100 /\ f[4] = 100},
        c \in {f \in [Segs -> {1, MaxCap}] : f[1] = 1 /\ f[2] = 1 /\ f[3] = f[4]} }

\* The working paths from the given ones on: walks of the graph, every segment
\* within its cap, no longer after the sentinel than max_length.
RECURSIVE GrowWorkingPaths(_, _)
GrowWorkingPaths(frontier, found) ==
    IF frontier = {} THEN found
    ELSE LET grown == UNION { {Append(walk, ref) : ref \in Refs} : walk \in frontier }
             fits(walk) ==
                 /\ IsLink(walk[Len(walk) - 1], walk[Len(walk)])
                 /\ count(walk, walk[Len(walk)]) + count(walk, -walk[Len(walk)])
                       <= max_path_segment_count(walk[Len(walk)])
                 /\ get_path_length(Rest(walk)) <= max_length
         IN  GrowWorkingPaths({walk \in grown : fits(walk)} \ found,
                              found \cup frontier)

\* The frontiers a round can start with: the anchor alone, or up to MaxCarried
\* different working paths that left the anchor.  A cull leaves up to
\* PROGRESSIVE_PATH_SEARCH_MAX_WORKING_PATHS // 2 paths, which is more than one
\* path for every ceiling from 4 on.
CarriedFrontiers(anchor, n) ==
    LET walks == GrowWorkingPaths({<<anchor>>}, {}) \ {<<anchor>>}
    IN  { <<<<anchor>>>> } \cup
        UNION { {f \in [1..k -> walks] : \A i, j \in 1..k : i < j => f[i] # f[j]} :
                   k \in 1..n }

InitRound ==
    /\ graph \in RoundGraphs
    /\ start = 1 /\ end = 2 /\ target_length = 200 /\ sequence = TRUE
    /\ expected_scaled_score = 100
    /\ min_length = Round(target_length * MIN_RELATIVE_PATH_LENGTH_TENTHS, 10)
    /\ max_length = Round(target_length * MAX_RELATIVE_PATH_LENGTH_TENTHS, 10)
    /\ rp_path = <<>> /\ rp_reversed = <<>> /\ rp_restored = <<>>
    /\ raised = "none"
    /\ working_paths = <<>> /\ final_paths = <<>> /\ ap_result = <<>>
    /\ forward_working_paths \in CarriedFrontiers(start, MaxCarried)
    /\ reverse_working_paths \in CarriedFrontiers(-end, 1)
    /\ ppf_final_paths = {} /\ ppf_result = <<>>
    /\ adv_paths = <<>> /\ flip_new_final_paths = FALSE /\ shortest_opposite_path = 0
    /\ scored_paths = <<>> /\ score_fraction_threshold = 0 /\ surviving_paths = <<>>
    /\ paths = <<>> /\ paths_and_scores = <<>> /\ progressive_path_search = FALSE
    /\ gb_result = <<>>
    /\ events = {"progressive_path_find"}
    /\ pc = "ppf_forward"

NextRound ==
    \/ ProgressiveForward \/ ProgressiveReverse
    \/ AdvanceIterate \/ AdvanceLeaveLoop \/ AdvanceReturn
    \/ CullScore \/ CullFilter \/ CullTest
    \/ ProgressiveFinish

SpecRound == InitRound /\ [][NextRound]_vars

-----------------------------------------------------------------------------
(* Properties of the length cap of advance_paths *)

-----------------------------------------------------------------------------
(* Properties of the returned list of get_best_paths_for_seq *)

\* C25: the returned list is empty exactly when no candidate was scored, and
\* the first element of a non-empty list is a scored candidate with the highest
\* raw score of all scored candidates.
C25_BestFirstOrEmpty ==
    pc = "gb_return" =>
       LET scored == {paths_and_scores[i] : i \in 1..Len(paths_and_scores)}
       IN  /\ gb_result = <<>> <=> scored = {}
           /\ gb_result # <<>> =>
                 /\ gb_result[1] \in scored
                 /\ \A y \in scored : ~RawLess(gb_result[1][2], y[2])

\* Candidates were scored and the list returned is not empty, although the
\* filter left out a candidate; another one with a lower raw score is kept.
C25_Witness ==
    /\ pc = "gb_return"
    /\ gb_result # <<>>
    /\ \E i \in 1..Len(paths_and_scores) :
          \A k \in 1..Len(gb_result) : gb_result[k] # paths_and_scores[i]
    /\ \E k \in 1..Len(gb_result) : RawLess(gb_result[k][2], gb_result[1][2])

====
